---- MODULE Spec2Model ----
(***************************************************************************)
(* Student registry (jude785/Student-List): the three routes of app.py     *)
(* (index, save_student_from_webcam, delete_student) over the students     *)
(* table and the upload folder, for the two copies of the application that *)
(* the repository holds: src/app.py (sqlite3) and src/PARA LUNES/app.py    *)
(* (the ORM copy).  Requests are served by concurrent workers; a handler   *)
(* is cut into steps at its accesses to the table and to the upload folder.*)
(*                                                                         *)
(* Strings are sequences of symbols.  In a photo payload the symbols       *)
(* "data:image" and "base64," stand for those substrings, "A" for one      *)
(* character of the base64 alphabet, "=" for the pad character and "U" for *)
(* one non-ASCII character (U+FFFD where a body was decoded with           *)
(* errors='replace').  JSON members are strings.                           *)
(***************************************************************************)
EXTENDS Integers, Sequences, FiniteSets, TLC

MaxRequests == 3
MaxClock == 2
MaxTextLen == 2

WorkerOrder == <<"w1", "w2">>
Workers == {WorkerOrder[i] : i \in 1..Len(WorkerOrder)}
Variants == {"app", "lunes"}

\* Python's None, as a value that is no string of the model.
None == <<"<None>">>

FieldNames == <<"idno", "lastname", "firstname", "course", "level">>

\* bool(v) of a query argument: None and '' are false.
Truthy(v) == v # None /\ Len(v) > 0

RECURSIVE PyAll(_)
PyAll(vs) == IF vs = <<>> THEN TRUE ELSE Truthy(Head(vs)) /\ PyAll(Tail(vs))

\* The list handed to all() at the head of save_student_from_webcam.
RequiredArgs(args) == [i \in 1..Len(FieldNames) |-> args[FieldNames[i]]]

AllRequiredMissingLevel(args) == PyAll(SubSeq(RequiredArgs(args), 1, 4))

AllRequired(args) == PyAll(RequiredArgs(args))

----------------------------------------------------------------------------
(* werkzeug.utils.secure_filename, as called on the ID number. *)

Whitespace == {" "}
PathSeps == {"/"}
SafeChars == {"a", "b", "e", "_", ".", "-"}

\* NFKD, then encode("ascii", "ignore"): an accented letter keeps its base.
RECURSIVE AsciiFold(_)
AsciiFold(s) ==
    IF s = <<>> THEN <<>>
    ELSE (IF Head(s) = "é" THEN <<"e">> ELSE <<Head(s)>>) \o AsciiFold(Tail(s))

ReplaceSeps(s) == [i \in 1..Len(s) |-> IF s[i] \in PathSeps THEN " " ELSE s[i]]

RECURSIVE SkipSpace(_)
SkipSpace(s) ==
    IF s # <<>> /\ Head(s) \in Whitespace THEN SkipSpace(Tail(s)) ELSE s

\* "_".join(s.split())
RECURSIVE JoinWordsFrom(_)
JoinWordsFrom(s) ==
    IF s = <<>> THEN <<>>
    ELSE IF Head(s) \in Whitespace
         THEN (IF SkipSpace(s) = <<>> THEN <<>>
               ELSE <<"_">> \o JoinWordsFrom(SkipSpace(s)))
         ELSE <<Head(s)>> \o JoinWordsFrom(Tail(s))

JoinWords(s) == JoinWordsFrom(SkipSpace(s))

StripUnsafe(s) == SelectSeq(s, LAMBDA c : c \in SafeChars)

RECURSIVE LStrip(_)
LStrip(s) == IF s # <<>> /\ Head(s) \in {".", "_"} THEN LStrip(Tail(s)) ELSE s

RECURSIVE RStrip(_)
RStrip(s) ==
    IF s # <<>> /\ s[Len(s)] \in {".", "_"}
    THEN RStrip(SubSeq(s, 1, Len(s) - 1)) ELSE s

secure_filename(s) == RStrip(LStrip(StripUnsafe(JoinWords(ReplaceSeps(AsciiFold(s))))))

\* f"{secure_filename(idno)}_{now:%Y%m%d%H%M%S}.jpeg": the stem and the second.
Filename(idno, now) == [stem |-> secure_filename(idno), ts |-> now]

Sentinel == [stem |-> <<"default_user.png">>, ts |-> 0]

----------------------------------------------------------------------------
(* The photo payload. *)

Marker == "base64,"
DataImage == "data:image"

Contains(t, sym) == \E i \in 1..Len(t) : t[i] = sym

\* t.split('base64,', 1)[1]
AfterMarker(t) ==
    LET i == CHOOSE k \in 1..Len(t) :
                 t[k] = Marker /\ \A j \in 1..(k - 1) : t[j] # Marker
    IN SubSeq(t, i + 1, Len(t))

\* The characters of a symbol, by class: d a base64 digit, p the pad,
\* x another ASCII character, n a non-ASCII character.
Chars(sym) ==
    CASE sym = "base64,"    -> <<"d", "d", "d", "d", "d", "d", "x">>
      [] sym = "data:image" -> <<"d", "d", "d", "d", "x", "d", "d", "d", "d", "d">>
      [] sym = "A"          -> <<"d">>
      [] sym = "="          -> <<"p">>
      [] OTHER              -> <<"n">>

RECURSIVE Expand(_)
Expand(t) == IF t = <<>> THEN <<>> ELSE Chars(Head(t)) \o Expand(Tail(t))

\* binascii.a2b_base64 without strict mode: other characters are skipped, a
\* pad that completes a quad ends the input, and the digits must end on a quad.
RECURSIVE A2bBase64(_, _, _)
A2bBase64(cs, quad, pads) ==
    IF cs = <<>> THEN quad = 0
    ELSE IF Head(cs) = "p"
         THEN (IF quad >= 2 /\ quad + pads + 1 >= 4 THEN TRUE
               ELSE A2bBase64(Tail(cs), quad, IF quad >= 2 THEN pads + 1 ELSE pads))
         ELSE IF Head(cs) = "d" THEN A2bBase64(Tail(cs), (quad + 1) % 4, 0)
         ELSE A2bBase64(Tail(cs), quad, pads)

\* base64.b64decode(str) returns: a non-ASCII character raises ValueError,
\* digits that do not end on a quad raise binascii.Error.
B64Decodes(t) == ~Contains(Expand(t), "n") /\ A2bBase64(Expand(t), 0, 0)

EmptyMap == [k \in {} |-> <<>>]

\* A request body as the handlers see it: data (request.data; empty when the
\* body was parsed as a form), utf8 (whether data decodes as UTF-8), astext
\* (get_data(as_text=True): decoded with errors='replace'), form, is_json, json.
RawBody(t) ==
    [data |-> t, utf8 |-> TRUE, astext |-> t, form |-> EmptyMap,
     is_json |-> FALSE, json |-> EmptyMap]
BinaryBody(t) ==
    [data |-> t, utf8 |-> FALSE, astext |-> t, form |-> EmptyMap,
     is_json |-> FALSE, json |-> EmptyMap]
FormBody(k, t) ==
    [data |-> <<>>, utf8 |-> TRUE, astext |-> <<>>, form |-> (k :> t),
     is_json |-> FALSE, json |-> EmptyMap]
\* A JSON document in UTF-16: request.data does not decode as UTF-8.
JsonBody(k, t) ==
    [data |-> <<"U">>, utf8 |-> FALSE, astext |-> <<"U">>, form |-> EmptyMap,
     is_json |-> TRUE, json |-> (k :> t)]

FormFields == <<"file", "image", "webcam", "data">>
JsonFields == <<"image", "file", "data">>

\* The first of `names` that is a key of m: [found, val].
RECURSIVE FirstOf(_, _)
FirstOf(names, m) ==
    IF names = <<>> THEN [found |-> FALSE, val |-> None]
    ELSE IF Head(names) \in DOMAIN m THEN [found |-> TRUE, val |-> m[Head(names)]]
    ELSE FirstOf(Tail(names), m)

\* m.get(a) or m.get(b) or m.get(c)
RECURSIVE FirstTruthy(_, _)
FirstTruthy(names, m) ==
    IF names = <<>> THEN None
    ELSE IF Len(names) = 1
         THEN (IF Head(names) \in DOMAIN m THEN m[Head(names)] ELSE None)
    ELSE IF Head(names) \in DOMAIN m /\ Truthy(m[Head(names)]) THEN m[Head(names)]
    ELSE FirstTruthy(Tail(names), m)

\* src/app.py: the four methods, each tried while image_data_b64 is falsy.
Method1(body) ==
    IF Len(body.data) > 0 /\ body.utf8 THEN body.data ELSE None
Method2(body, img) ==
    IF ~Truthy(img) /\ DOMAIN body.form # {} /\ FirstOf(FormFields, body.form).found
    THEN FirstOf(FormFields, body.form).val ELSE img
Method3(body, img) ==
    IF ~Truthy(img) /\ Len(body.astext) > 0 /\ Contains(body.astext, DataImage)
    THEN body.astext ELSE img
Method4(body, img) ==
    IF ~Truthy(img) /\ body.is_json /\ DOMAIN body.json # {}
    THEN FirstTruthy(JsonFields, body.json) ELSE img

\* [raised, val]: image_data_b64 after the extraction.
ExtractApp(body) ==
    [raised |-> FALSE,
     val |-> Method4(body, Method3(body, Method2(body, Method1(body))))]

\* src/PARA LUNES/app.py: request.data.decode('utf-8'), which raises
\* UnicodeDecodeError on a body that is not UTF-8.
ExtractLunes(body) ==
    IF body.utf8 THEN [raised |-> FALSE, val |-> body.data]
    ELSE [raised |-> TRUE, val |-> None]

Extract(variant, body) ==
    IF variant = "app" THEN ExtractApp(body) ELSE ExtractLunes(body)

----------------------------------------------------------------------------
(* The requests that are sent. *)

\* Two ID numbers that secure_filename maps to the same stem, and the two ways
\* an argument can be missing: absent from the query, or empty.
IdnoInputs == {None, <<>>, <<"a">>, <<"a", "!">>}

ArgInputs ==
    [idno : IdnoInputs,
     lastname : {None, <<"L">>},
     firstname : {<<>>, <<"F">>},
     course : {None, <<"C">>},
     level : {<<>>, <<"3">>}]

TextAlphabet == {DataImage, Marker, "A", "=", "U"}

Texts == UNION {[1..n -> TextAlphabet] : n \in 0..MaxTextLen}

\* What a form field or a JSON member holds.
FieldTexts == {<<"A">>, <<Marker>>, <<Marker, "A">>}

Bodies ==
    {RawBody(t) : t \in {x \in Texts : ~Contains(x, "U")}}
    \cup {BinaryBody(t) : t \in {x \in Texts : Contains(x, "U")}}
    \cup {FormBody(k, t) : k \in {"webcam", "photo"}, t \in FieldTexts}
    \cup {JsonBody(k, t) : k \in {"image", "photo"}, t \in FieldTexts}

----------------------------------------------------------------------------
(* The students table and the upload folder. *)

VARIABLES
    variant,    \* which copy of the application is deployed
    students,   \* the rows of the students table
    nextId,     \* the AUTOINCREMENT sequence of students.id
    files,      \* the upload folder: filename -> whose photo the file holds
    clock,      \* datetime.now(), in seconds
    started,    \* the number of requests received
    loc,        \* per worker: where its handler stands, and the handler's locals
    last,       \* the last response sent, with what its request did
    live        \* the registrations committed and not deleted since, oldest first

vars == <<variant, students, nextId, files, clock, started, loc, last, live>>

NoArgs ==
    [idno |-> None, lastname |-> None, firstname |-> None, course |-> None,
     level |-> None]

NoStudent ==
    [id |-> 0, idno |-> None, lastname |-> None, firstname |-> None,
     course |-> None, level |-> None, image_file |-> Sentinel]

\* A row inserted without image_file, which takes the column's DEFAULT.
Legacy ==
    [id |-> 1, idno |-> <<"b">>, lastname |-> <<"L">>, firstname |-> <<"F">>,
     course |-> <<"C">>, level |-> <<"3">>, image_file |-> Sentinel]

Idle ==
    [pc |-> "idle", args |-> NoArgs, filename |-> Sentinel, student |-> NoStudent,
     conn |-> "none", wrote |-> {}, removed |-> {}]

NoResponse ==
    [op |-> "none", status |-> 0, msg |-> "", idno |-> None, id |-> 0,
     missing |-> FALSE, existed |-> FALSE, nophoto |-> FALSE,
     undecodable |-> FALSE, conn |-> "none", wrote |-> {}, inserted |-> {},
     removed |-> {}, student |-> NoStudent, rows |-> <<>>]

Placeholder == <<"placeholder">>
Truncated == <<"truncated">>

\* SELECT id FROM students WHERE idno = ? ... fetchone()
ExistsByIdno(rows, idno) == \E s \in rows : s.idno = idno

\* SELECT * FROM students WHERE id = ?
RowsById(rows, id) == {s \in rows : s.id = id}

NoUniqueConstraint(rows, idno) == FALSE

\* idno VARCHAR(10) NOT NULL UNIQUE: the INSERT raises IntegrityError.
UniqueViolation(rows, idno) == \E s \in rows : s.idno = idno

\* INSERT INTO students (idno, lastname, firstname, course, level, image_file)
InsertRow(id, args, filename) ==
    [id |-> id, idno |-> args.idno, lastname |-> args.lastname,
     firstname |-> args.firstname, course |-> args.course, level |-> args.level,
     image_file |-> filename]

RECURSIVE OrderByIdAsc(_)
OrderByIdAsc(rows) ==
    IF rows = {} THEN <<>>
    ELSE LET r == CHOOSE x \in rows : \A y \in rows : x.id <= y.id
         IN <<r>> \o OrderByIdAsc(rows \ {r})

\* SELECT * FROM students ORDER BY id DESC
RECURSIVE OrderByIdDesc(_)
OrderByIdDesc(rows) ==
    IF rows = {} THEN <<>>
    ELSE LET r == CHOOSE x \in rows : \A y \in rows : y.id <= x.id
         IN <<r>> \o OrderByIdDesc(rows \ {r})

\* open(file_path, 'wb'); f.write(image_binary)
WriteFile(fs, name, content) ==
    [f \in DOMAIN fs \cup {name} |-> IF f = name THEN content ELSE fs[f]]

\* os.remove(file_path)
RemoveFile(fs, name) == [f \in DOMAIN fs \ {name} |-> fs[f]]

----------------------------------------------------------------------------
(* What a request is, as the claims speak of it. *)

MissingField(args) ==
    \E i \in 1..Len(FieldNames) : args[FieldNames[i]] \in {None, <<>>}

\* The texts a body carries: the raw body, the form fields, the JSON members.
ChannelTexts(body) ==
    {body.astext} \cup {body.form[k] : k \in DOMAIN body.form}
    \cup {body.json[k] : k \in DOMAIN body.json}

NoPhoto(body) == \A t \in ChannelTexts(body) : ~Contains(t, Marker)

Undecodable(body) ==
    /\ \E t \in ChannelTexts(body) : Contains(t, Marker)
    /\ \A t \in ChannelTexts(body) :
           Contains(t, Marker) => ~B64Decodes(AfterMarker(t))

----------------------------------------------------------------------------
(* save_student_from_webcam *)

\* The connection a handler holds when it returns.  The copy holds none: its
\* session belongs to the ORM extension.
Conn(v, c) == IF v = "app" THEN c ELSE "none"

\* A handler's outcome before it touches the upload folder, payload first.
ExtractThenCheck(v, args, body, rows) ==
    LET ex == Extract(v, body) IN
    IF ~AllRequired(args)
    THEN [status |-> 400, msg |-> "fields_required", conn |-> "none"]
    ELSE IF ex.raised
    THEN [status |-> 500, msg |-> "UnicodeDecodeError", conn |-> Conn(v, "open")]
    ELSE IF ~Truthy(ex.val) \/ ~Contains(ex.val, Marker)
    THEN [status |-> 400, msg |-> "no_image", conn |-> Conn(v, "open")]
    ELSE IF ExistsByIdno(rows, args.idno)
    THEN [status |-> 409, msg |-> "id_exists", conn |-> Conn(v, "closed")]
    ELSE IF ~B64Decodes(AfterMarker(ex.val))
    THEN [status |-> 500, msg |-> "binascii.Error", conn |-> Conn(v, "open")]
    ELSE [status |-> 0, msg |-> "", conn |-> Conn(v, "open")]

\* Lines 85-185 of src/app.py, 63-90 of the copy: what the handler returns
\* before it touches the upload folder (status 0: it goes on to save the
\* file).  An exception reaches the handler's except, which returns a 500
\* that carries the error.
BeforeSave(v, args, body, rows) ==
    LET ex == Extract(v, body) IN
    IF ~AllRequired(args)
    THEN [status |-> 400, msg |-> "fields_required", conn |-> "none"]
    ELSE IF ExistsByIdno(rows, args.idno)
    THEN [status |-> 409, msg |-> "id_exists", conn |-> Conn(v, "closed")]
    ELSE IF ex.raised
    THEN [status |-> 500, msg |-> "UnicodeDecodeError", conn |-> Conn(v, "open")]
    ELSE IF v = "app" /\ ~Truthy(ex.val)
    THEN [status |-> 400, msg |-> "no_image", conn |-> Conn(v, "open")]
    ELSE IF v = "app" /\ ~Contains(ex.val, Marker)
    THEN [status |-> 400, msg |-> "invalid_format", conn |-> Conn(v, "open")]
    ELSE IF v = "lunes" /\ (~Truthy(ex.val) \/ ~Contains(ex.val, Marker))
    THEN [status |-> 400, msg |-> "no_valid_image", conn |-> Conn(v, "open")]
    ELSE IF ~B64Decodes(AfterMarker(ex.val))
    THEN [status |-> 500, msg |-> "binascii.Error", conn |-> Conn(v, "open")]
    ELSE [status |-> 0, msg |-> "", conn |-> Conn(v, "open")]

\* The server hands a request to the first worker that is free.
Free(w) ==
    /\ loc[w].pc = "idle"
    /\ \A i, j \in 1..Len(WorkerOrder) :
           (WorkerOrder[j] = w /\ i < j) => loc[WorkerOrder[i]].pc # "idle"

Respond(w, r) ==
    /\ last' = r
    /\ loc' = [loc EXCEPT ![w] = Idle]

\* The requests that are sent, each with what the claims ask of it.  A
\* request that lacks an argument is answered before its body is read: it is
\* sent with a well-formed body.
Request(a, b) ==
    [args |-> a, body |-> b, missing |-> MissingField(a),
     nophoto |-> NoPhoto(b), undecodable |-> Undecodable(b)]

Requests ==
    {Request(a, b) : a \in {x \in ArgInputs : ~MissingField(x)}, b \in Bodies}
    \cup {Request(a, RawBody(<<DataImage, Marker>>)) :
            a \in {x \in ArgInputs : MissingField(x)}}

SaveStudent(w) ==
    /\ Free(w)
    /\ started < MaxRequests
    /\ started' = started + 1
    /\ \E r \in Requests :
         LET out == BeforeSave(variant, r.args, r.body, students) IN
            IF out.status # 0
            THEN Respond(w, [NoResponse EXCEPT
                     !.op = "save", !.status = out.status, !.msg = out.msg,
                     !.idno = r.args.idno, !.conn = out.conn,
                     !.missing = r.missing,
                     !.existed = \E s \in students : s.idno = r.args.idno,
                     !.nophoto = r.nophoto,
                     !.undecodable = r.undecodable])
            ELSE /\ loc' = [loc EXCEPT ![w] =
                              [Idle EXCEPT !.pc = "save_file", !.args = r.args,
                                           !.conn = out.conn]]
                 /\ last' = last
    /\ UNCHANGED <<variant, students, nextId, files, clock, live>>

FinishSave(w, status, msg, conn, wrote, inserted) ==
    Respond(w, [NoResponse EXCEPT !.op = "save", !.status = status, !.msg = msg,
                                  !.idno = loc[w].args.idno,
                                  !.conn = Conn(variant, conn),
                                  !.wrote = wrote, !.inserted = inserted])

\* Lines 187-193: the filename from the clock, then open(..., 'wb') and write.
\* The open or the write may fail (OSError), which the handler's except turns
\* into a 500; a write that fails after the open leaves a truncated file.
SavePhoto(w) ==
    /\ loc[w].pc = "save_file"
    /\ LET name == Filename(loc[w].args.idno, clock) IN
         \/ /\ files' = WriteFile(files, name, loc[w].args.idno)
            /\ loc' = [loc EXCEPT ![w].pc = "insert", ![w].filename = name,
                                  ![w].wrote = {name}]
            /\ last' = last
         \/ /\ files' = files
            /\ FinishSave(w, 500, "OSError", "open", {}, {})
         \/ /\ files' = WriteFile(files, name, Truncated)
            /\ FinishSave(w, 500, "OSError", "open", {name}, {})
    /\ UNCHANGED <<variant, students, nextId, clock, started, live>>

\* Lines 195-204: INSERT, commit, close.  An ID number that a concurrent
\* request inserted since the check raises IntegrityError: a 500.
InsertStudent(w) ==
    /\ loc[w].pc = "insert"
    /\ IF UniqueViolation(students, loc[w].args.idno)
       THEN /\ FinishSave(w, 500, "IntegrityError", "open", loc[w].wrote, {})
            /\ UNCHANGED <<students, nextId, live>>
       ELSE /\ students' = students \cup
                   {InsertRow(nextId, loc[w].args, loc[w].filename)}
            /\ nextId' = nextId + 1
            /\ live' = Append(live, [id |-> nextId, args |-> loc[w].args])
            /\ FinishSave(w, 200, "saved", "closed", loc[w].wrote, {nextId})
    /\ UNCHANGED <<variant, files, clock, started>>

----------------------------------------------------------------------------
(* delete_student *)

\* What the handler flashes when the row is absent.  In the copy get_or_404
\* raises NotFound inside the try, and the except flashes the generic error.
NotFoundMessage(v) == IF v = "app" THEN "not_found" ELSE "error_deleting"

DeleteReply(w, id, msg) ==
    [NoResponse EXCEPT !.op = "delete", !.status = 302, !.msg = msg, !.id = id,
                       !.conn = Conn(variant, "closed"),
                       !.removed = loc[w].removed, !.student = loc[w].student]

\* Lines 217-228: the SELECT by id.
DeleteStudent(w) ==
    /\ Free(w)
    /\ started < MaxRequests
    /\ started' = started + 1
    /\ \E id \in 1..nextId :
         IF RowsById(students, id) = {}
         THEN Respond(w, DeleteReply(w, id, NotFoundMessage(variant)))
         ELSE /\ loc' = [loc EXCEPT ![w] =
                           [Idle EXCEPT !.pc = "remove_file",
                                        !.conn = Conn(variant, "open"),
                                        !.student = CHOOSE s \in RowsById(students, id) : TRUE]]
              /\ last' = last
    /\ UNCHANGED <<variant, students, nextId, files, clock, live>>

RemovesAnyPhoto(image_file) == TRUE

\* if image_file and image_file != 'default_user.png'
RemovesPhoto(image_file) == image_file # Sentinel

\* Lines 230-235: os.path.exists, os.remove.
RemovePhoto(w) ==
    /\ loc[w].pc = "remove_file"
    /\ LET name == loc[w].student.image_file IN
         IF RemovesPhoto(name) /\ name \in DOMAIN files
         THEN /\ files' = RemoveFile(files, name)
              /\ loc' = [loc EXCEPT ![w].pc = "delete_row", ![w].removed = {name}]
         ELSE /\ files' = files
              /\ loc' = [loc EXCEPT ![w].pc = "delete_row"]
    /\ UNCHANGED <<variant, students, nextId, clock, started, last, live>>

\* Lines 237-243: DELETE FROM students WHERE id = ?, commit, close, flash.
DeleteRow(w) ==
    /\ loc[w].pc = "delete_row"
    /\ students' = students \ RowsById(students, loc[w].student.id)
    /\ live' = SelectSeq(live, LAMBDA e : e.id # loc[w].student.id)
    /\ Respond(w, DeleteReply(w, loc[w].student.id, "deleted"))
    /\ UNCHANGED <<variant, nextId, files, clock, started>>

----------------------------------------------------------------------------
(* index *)

ListRowsAsc(rows) == OrderByIdAsc(rows)

\* Lines 65-72: the rows, newest first, as the template gets them.
ListRows(rows) == OrderByIdDesc(rows)

Index(w) ==
    /\ Free(w)
    /\ started < MaxRequests
    /\ started' = started + 1
    /\ Respond(w, [NoResponse EXCEPT !.op = "index", !.status = 200,
                                     !.conn = Conn(variant, "closed"),
                                     !.rows = ListRows(students)])
    /\ UNCHANGED <<variant, students, nextId, files, clock, live>>

\* A second passes.
Tick ==
    /\ clock < MaxClock
    /\ clock' = clock + 1
    /\ UNCHANGED <<variant, students, nextId, files, started, loc, last, live>>

----------------------------------------------------------------------------

\* The table as init_database leaves it (CREATE TABLE IF NOT EXISTS keeps the
\* rows of an earlier run), and the upload folder with the placeholder.
Init ==
    /\ variant \in Variants
    /\ \E legacy \in BOOLEAN :
         /\ students = (IF legacy THEN {Legacy} ELSE {})
         /\ nextId = (IF legacy THEN 2 ELSE 1)
         /\ live = (IF legacy
                    THEN <<[id |-> 1, args |-> [f \in DOMAIN NoArgs |-> Legacy[f]]]>>
                    ELSE <<>>)
    /\ files = (Sentinel :> Placeholder)
    /\ clock = 1
    /\ started = 0
    /\ loc = [w \in Workers |-> Idle]
    /\ last = NoResponse

Next ==
    \/ \E w \in Workers : SaveStudent(w)
    \/ \E w \in Workers : SavePhoto(w)
    \/ \E w \in Workers : InsertStudent(w)
    \/ \E w \in Workers : DeleteStudent(w)
    \/ \E w \in Workers : RemovePhoto(w)
    \/ \E w \in Workers : DeleteRow(w)
    \/ \E w \in Workers : Index(w)
    \/ Tick

Spec == Init /\ [][Next]_vars

\* The responses sent so far.
Completed == started - Cardinality({w \in Workers : loc[w].pc # "idle"})

\* This step sends a response.
Replies == Completed' = Completed + 1

----------------------------------------------------------------------------
(* The claims. *)

\* The rows that hold a given ID number.
RowsByIdno(rows, idno) == {s \in rows : s.idno = idno}

\* C1: in every reachable state no two rows of the students table hold the
\* same ID number, also when two registrations of one ID number both pass
\* the check before either inserts: the later INSERT fails.
C1_UniqueIdNumber ==
    \A r1, r2 \in students : r1.idno = r2.idno => r1 = r2

\* A registration passed the check, wrote its photo, and lost the INSERT to
\* a concurrent registration of the same ID number, whose row is the one kept.
C1_Witness ==
    /\ last.op = "save" /\ last.status = 500 /\ last.msg = "IntegrityError"
    /\ last.wrote # {}
    /\ Cardinality(RowsByIdno(students, last.idno)) = 1

\* C2: a registration with all five arguments whose ID number is in the
\* table when the handler checks for it is answered 409 whatever its body
\* holds, and does nothing: the table and the upload folder are as before,
\* with one row for that ID number.
C2_DuplicateRejected ==
    [][(Replies /\ last'.op = "save" /\ ~last'.missing /\ last'.existed)
         => /\ last'.status = 409
            /\ students' = students /\ files' = files
            /\ last'.wrote = {} /\ last'.inserted = {}
            /\ Cardinality(RowsByIdno(students', last'.idno)) = 1]_vars

\* A 409 for a request whose body holds no photo at all.
C2_Witness ==
    /\ last.op = "save" /\ last.status = 409 /\ last.existed /\ last.nophoto
    /\ Cardinality(RowsByIdno(students, last.idno)) = 1

\* C3: a registration that lacks one of the five arguments, or has it empty,
\* is answered 400 whatever else it holds, and neither the table nor the
\* upload folder changes.
C3_MissingFieldRejected ==
    [][(Replies /\ last'.op = "save" /\ last'.missing)
         => /\ last'.status = 400
            /\ students' = students /\ files' = files
            /\ last'.wrote = {} /\ last'.inserted = {}]_vars

\* A 400 for a request with an ID number but without another argument, sent
\* with a well-formed photo while the table holds rows.
C3_Witness ==
    /\ last.op = "save" /\ last.status = 400 /\ last.missing
    /\ Truthy(last.idno) /\ ~last.nophoto /\ ~last.undecodable
    /\ students # {}

\* C4: a registration with all five arguments and a fresh ID number whose
\* body holds no text with the marker "base64," on any channel is answered
\* 400 before anything is written or inserted.
C4_NoPhotoRejected ==
    (last.op = "save" /\ ~last.missing /\ ~last.existed /\ last.nophoto)
      => (last.status = 400 /\ last.wrote = {} /\ last.inserted = {})

\* C5: a registration whose payload holds the marker but whose text after
\* the marker does not decode as base64 is answered 400, with nothing
\* written and nothing inserted.
C5_UndecodableRejected ==
    (last.op = "save" /\ ~last.missing /\ ~last.existed /\ last.undecodable)
      => (last.status = 400 /\ last.wrote = {} /\ last.inserted = {})

\* The fields a registration submits, as a row shows them.
SameFields(row, args) ==
    \A i \in 1..Len(FieldNames) : row[FieldNames[i]] = args[FieldNames[i]]

\* C6: the listing is the committed registrations that were not deleted
\* since, one row each with the submitted fields, newest first, which is by
\* id descending; it is empty when there are none.
C6_ListingIsLiveNewestFirst ==
    [][(Replies /\ last'.op = "index")
         => /\ Len(last'.rows) = Len(live)
            /\ \A i \in 1..Len(live) :
                 LET row == last'.rows[Len(live) + 1 - i] IN
                 row.id = live[i].id /\ SameFields(row, live[i].args)
            /\ \A i \in 1..(Len(last'.rows) - 1) :
                 last'.rows[i].id > last'.rows[i + 1].id]_vars

\* A listing of two rows, the newer one a registration with its photo.
C6_Witness ==
    /\ last.op = "index" /\ Len(last.rows) = 2
    /\ last.rows[1].image_file # Sentinel
    /\ last.rows[1].idno \in {<<"a">>, <<"a", "!">>}

C8_NotFoundReported ==
    (last.op = "delete" /\ last.student = NoStudent)
      => (last.msg = "not_found" /\ last.removed = {})

\* A deletion that holds the row it selected and has not deleted it yet.
Deleting(s) == \E w \in Workers : loc[w].pc = "delete_row" /\ loc[w].student.id = s.id

\* C9: every row whose image_file is not the sentinel names a file that is
\* in the upload folder (but for a row whose deletion is under way).
C9_NoDanglingPhoto ==
    \A s \in students :
        (s.image_file # Sentinel /\ ~Deleting(s)) => s.image_file \in DOMAIN files

\* C10: no two rows name the same photo file.
C10_PhotoOwnedByOneRow ==
    \A r1, r2 \in students :
        (r1 # r2 /\ r1.image_file # Sentinel) => r1.image_file # r2.image_file

\* C11: when a handler returns its response, a connection that the request
\* opened has been closed (a request that opened none has none to close).
C11_ConnectionClosedOnReturn == last.conn # "open"
====
